---- MODULE Spec2Model ----
(***************************************************************************)
(* A model of Geodesy (Geodesy.h, Geodesy.cpp): the three static methods   *)
(* Haversine, SLC and Vincenty, each a function from four doubles and a    *)
(* unit to a double.                                                       *)
(*                                                                         *)
(* double is modelled as a decimal floating-point number with a four-digit *)
(* significand and the IEEE-754 special values: NaN and the two            *)
(* infinities.  Every arithmetic operation rounds its exact result to four *)
(* digits, so rounding, cancellation, overflow to infinity and the         *)
(* propagation of NaN happen in the model as they do in the program, at a  *)
(* coarser precision.  The <cmath> functions are computed with the same    *)
(* arithmetic.  Signed zeros and subnormal numbers are not modelled.       *)
(*                                                                         *)
(* Intermediate values are passed as operator parameters.                  *)
(***************************************************************************)
EXTENDS Integers, Sequences, FiniteSets, TLC

(***************************************************************************)
(* double: the values                                                      *)
(***************************************************************************)

\* a finite double m * 10^e; m = 0, or 1000 <= |m| <= 9999
Fin(m, e) == [c |-> "fin", m |-> m, e |-> e]

Zero == [c |-> "fin", m |-> 0, e |-> 0]

One == [c |-> "fin", m |-> 1000, e |-> -3]

NaN == [c |-> "nan", m |-> 0, e |-> 0]

\* s = 1 for +Infinity, s = -1 for -Infinity
Inf(s) == [c |-> "inf", m |-> s, e |-> 0]

IsNaN(x) == x.c = "nan"

IsInf(x) == x.c = "inf"

IsFinite(x) == x.c = "fin"

Sgn(n) == IF n < 0 THEN -1 ELSE 1

Abs(n) == IF n < 0 THEN -n ELSE n

Min(m, n) == IF m < n THEN m ELSE n

Pow10(n) == <<1, 10, 100, 1000, 10000, 100000, 1000000, 10000000, 100000000, 1000000000>>[n + 1]

NumDigits(n) ==
    IF n < 10 THEN 1 ELSE IF n < 100 THEN 2 ELSE IF n < 1000 THEN 3
    ELSE IF n < 10000 THEN 4 ELSE IF n < 100000 THEN 5
    ELSE IF n < 1000000 THEN 6 ELSE IF n < 10000000 THEN 7
    ELSE IF n < 100000000 THEN 8 ELSE IF n < 1000000000 THEN 9 ELSE 10

\* the d-digit number mag rounded to its four leading digits (half up)
Digits4(mag, d) ==
    IF d > 4
    THEN (mag \div Pow10(d - 4))
         + (IF (mag % Pow10(d - 4)) * 2 >= Pow10(d - 4) THEN 1 ELSE 0)
    ELSE mag * Pow10(4 - d)

\* s * q * 10^e as a double: overflow gives an infinity, underflow zero
Bounded(s, q, e) ==
    IF e > 30 THEN Inf(s) ELSE IF e < -30 THEN Zero ELSE Fin(s * q, e)

\* q may have been rounded up to 10000
Pack(s, q, e) ==
    Bounded(s, IF q = 10000 THEN 1000 ELSE q, IF q = 10000 THEN e + 1 ELSE e)

RoundDigits(s, mag, e, d) == Pack(s, Digits4(mag, d), e + d - 4)

\* the double nearest to s * mag * 10^e, for mag >= 0
Round(s, mag, e) == IF mag = 0 THEN Zero ELSE RoundDigits(s, mag, e, NumDigits(mag))

\* a literal of the source: digits * 10^e rounded to a double
Lit(digits, e) == Round(Sgn(digits), Abs(digits), e)

FromInt(k) == Round(Sgn(k), Abs(k), 0)

(***************************************************************************)
(* double: the arithmetic                                                  *)
(***************************************************************************)

FNeg(x) == IF IsNaN(x) THEN NaN ELSE [x EXCEPT !.m = -x.m]

FAbs(x) == IF IsNaN(x) THEN NaN ELSE [x EXCEPT !.m = Abs(x.m)]

\* v with the sign of the integer m
WithSign(m, v) == IF m < 0 THEN FNeg(v) ELSE v

RoundInt(n, e) == Round(Sgn(n), Abs(n), e)

\* the sum of two finite nonzero doubles at most five decimal places apart
AddAligned(x, y, e) == RoundInt(x.m * Pow10(x.e - e) + y.m * Pow10(y.e - e), e)

FAdd(x, y) ==
    IF IsNaN(x) \/ IsNaN(y) THEN NaN
    ELSE IF IsInf(x) THEN (IF IsInf(y) /\ y.m # x.m THEN NaN ELSE x)
    ELSE IF IsInf(y) THEN y
    ELSE IF x.m = 0 THEN y
    ELSE IF y.m = 0 THEN x
    ELSE IF x.e - y.e >= 6 THEN x
    ELSE IF y.e - x.e >= 6 THEN y
    ELSE AddAligned(x, y, Min(x.e, y.e))

FSub(x, y) == FAdd(x, FNeg(y))

FMul(x, y) ==
    IF IsNaN(x) \/ IsNaN(y) THEN NaN
    ELSE IF IsInf(x) \/ IsInf(y)
         THEN (IF x.m = 0 \/ y.m = 0 THEN NaN ELSE Inf(Sgn(x.m) * Sgn(y.m)))
    ELSE Round(Sgn(x.m) * Sgn(y.m), Abs(x.m) * Abs(y.m), x.e + y.e)

FDiv(x, y) ==
    IF IsNaN(x) \/ IsNaN(y) THEN NaN
    ELSE IF IsInf(x) THEN (IF IsInf(y) THEN NaN ELSE Inf(Sgn(x.m) * Sgn(y.m)))
    ELSE IF IsInf(y) THEN Zero
    ELSE IF y.m = 0 THEN (IF x.m = 0 THEN NaN ELSE Inf(Sgn(x.m)))
    ELSE IF x.m = 0 THEN Zero
    ELSE Round(Sgn(x.m) * Sgn(y.m),
               (2 * (Abs(x.m) * 100000) + Abs(y.m)) \div (2 * Abs(y.m)),
               x.e - y.e - 5)

\* x == 0.0
FIsZero(x) == IsFinite(x) /\ x.m = 0

\* x != 0.0 (true of NaN)
FNonZero(x) == ~FIsZero(x)

\* d < 0.0
IsNegative(d) == ~IsNaN(d) /\ d.m < 0

\* x < y (false when either is NaN)
FLt(x, y) == IsNegative(FSub(x, y))

RECURSIVE ISqrtB(_, _, _)
RECURSIVE ISqrtMid(_, _, _, _)
\* the integer square root of n, between lo and hi: lo^2 <= n < hi^2
ISqrtB(n, lo, hi) ==
    IF hi - lo <= 1 THEN lo ELSE ISqrtMid(n, lo, hi, (lo + hi) \div 2)

ISqrtMid(n, lo, hi, mid) ==
    IF mid * mid <= n THEN ISqrtB(n, mid, hi) ELSE ISqrtB(n, lo, mid)

ISqrt(n) == ISqrtB(n, 0, 31623)

(***************************************************************************)
(* <cmath>                                                                 *)
(***************************************************************************)

\* std::sqrt
FSqrt(x) ==
    IF IsNaN(x) THEN NaN
    ELSE IF x.m < 0 THEN NaN
    ELSE IF IsInf(x) THEN x
    ELSE IF x.m = 0 THEN Zero
    ELSE IF x.e % 2 = 0 THEN Round(1, ISqrt(x.m * 10000), (x.e - 4) \div 2)
    ELSE Round(1, ISqrt(x.m * 100000), (x.e - 5) \div 2)

\* std::numbers::pi, 3.141592653589793, as a double
Pi == [c |-> "fin", m |-> 3142, e |-> -3]

HalfPi == [c |-> "fin", m |-> 1571, e |-> -3]

QuarterPi == [c |-> "fin", m |-> 7855, e |-> -4]

TwoPi == [c |-> "fin", m |-> 6284, e |-> -3]

\* the integer nearest to a finite double below 10^8 in magnitude (0 beyond)
NearestInt(x) ==
    IF x.e >= 5 THEN 0
    ELSE IF x.e >= 0 THEN x.m * Pow10(x.e)
    ELSE IF x.e <= -5 THEN 0
    ELSE Sgn(x.m) * ((Abs(x.m) + 5 * Pow10(-x.e - 1)) \div Pow10(-x.e))

ClampPi(r) == IF FLt(Pi, r) THEN Pi ELSE IF FLt(r, FNeg(Pi)) THEN FNeg(Pi) ELSE r

\* x less k turns
ReduceTurns(x, k) == ClampPi(FSub(x, FMul(FromInt(k), TwoPi)))

\* a finite argument reduced to [-pi, pi]; an argument in that range is kept
ReduceArg(x) ==
    IF ~FLt(Pi, FAbs(x)) THEN x
    ELSE IF x.e >= 5 THEN Zero
    ELSE ReduceTurns(x, NearestInt(FDiv(x, TwoPi)))

SinPoly(y, y2) ==
    FMul(y, FSub(One, FMul(FDiv(y2, FromInt(6)),
                FSub(One, FMul(FDiv(y2, FromInt(20)),
                    FSub(One, FDiv(y2, FromInt(42))))))))

\* sin y for |y| <= pi/4
SinSeries(y) == SinPoly(y, FMul(y, y))

CosPoly(y2) ==
    FSub(One, FMul(FDiv(y2, FromInt(2)),
        FSub(One, FMul(FDiv(y2, FromInt(12)),
            FSub(One, FMul(FDiv(y2, FromInt(30)),
                FSub(One, FDiv(y2, FromInt(56)))))))))

\* cos y for |y| <= pi/4
CosSeries(y) == CosPoly(FMul(y, y))

\* a result of sin or cos lies in [-1, 1]
Clamp1(x) == IF FLt(One, x) THEN One ELSE IF FLt(x, FNeg(One)) THEN FNeg(One) ELSE x

\* cos q and sin q for 0 <= q <= pi/2
CosQuadrant(q) ==
    IF FLt(QuarterPi, q) THEN SinSeries(FSub(HalfPi, q)) ELSE CosSeries(q)

SinQuadrant(q) ==
    IF FLt(QuarterPi, q) THEN CosSeries(FSub(HalfPi, q)) ELSE SinSeries(q)

\* sin h and cos h for 0 <= h <= pi
SinHalfTurn(h) == SinQuadrant(IF FLt(HalfPi, h) THEN FSub(Pi, h) ELSE h)

CosHalfTurn(h) ==
    WithSign(IF FLt(HalfPi, h) THEN -1 ELSE 1,
             CosQuadrant(IF FLt(HalfPi, h) THEN FSub(Pi, h) ELSE h))

SinReduced(r) == Clamp1(WithSign(r.m, SinHalfTurn(FAbs(r))))

\* std::sin
Sin(x) == IF ~IsFinite(x) THEN NaN ELSE SinReduced(ReduceArg(x))

\* std::cos
Cos(x) == IF ~IsFinite(x) THEN NaN ELSE Clamp1(CosHalfTurn(FAbs(ReduceArg(x))))

\* std::tan
Tan(x) == FDiv(Sin(x), Cos(x))

\* t / (1 + sqrt(1 + t^2)) = tan(atan(t) / 2)
HalfAngle(t) == FDiv(t, FAdd(One, FSqrt(FAdd(One, FMul(t, t)))))

AtanPoly(t, t2) ==
    FMul(FromInt(4),
         FMul(t, FSub(One, FMul(t2,
                 FSub(FDiv(One, FromInt(3)), FMul(t2,
                     FSub(FDiv(One, FromInt(5)), FDiv(t2, FromInt(7)))))))))

AtanSeries(t) == AtanPoly(t, FMul(t, t))

\* atan x for |x| <= 1
AtanUnit(x) == AtanSeries(HalfAngle(HalfAngle(x)))

\* atan x from v = atan(1 / |x|) when |x| > 1 (big), from v = atan x otherwise
AtanUnfold(x, big, v) == IF big THEN WithSign(x.m, FSub(HalfPi, v)) ELSE v

AtanFold(x, big) == AtanUnfold(x, big, AtanUnit(IF big THEN FDiv(One, FAbs(x)) ELSE x))

\* std::atan
Atan(x) ==
    IF IsNaN(x) THEN NaN
    ELSE IF IsInf(x) THEN WithSign(x.m, HalfPi)
    ELSE AtanFold(x, FLt(One, FAbs(x)))

\* atan2(y, x) from v = atan(y / x)
Atan2Quadrant(y, x, v) ==
    IF x.m > 0 THEN v
    ELSE IF x.m < 0 THEN (IF y.m < 0 THEN FSub(v, Pi) ELSE FAdd(v, Pi))
    ELSE IF y.m = 0 THEN Zero
    ELSE WithSign(y.m, HalfPi)

\* std::atan2
Atan2(y, x) ==
    IF IsNaN(x) \/ IsNaN(y) THEN NaN
    ELSE IF IsInf(x) /\ IsInf(y)
         THEN WithSign(y.m, IF x.m > 0 THEN QuarterPi ELSE FMul(FromInt(3), QuarterPi))
    ELSE Atan2Quadrant(y, x, Atan(FDiv(y, x)))

\* sqrt(1 - x^2)
Cofunction(x) == FSqrt(FMul(FSub(One, x), FAdd(One, x)))

\* std::asin
Asin(x) == IF IsNaN(x) \/ FLt(One, FAbs(x)) THEN NaN ELSE Atan2(x, Cofunction(x))

\* std::acos
Acos(x) == IF IsNaN(x) \/ FLt(One, FAbs(x)) THEN NaN ELSE Atan2(Cofunction(x), x)

(***************************************************************************)
(* Geodesy.h: the constants                                                *)
(***************************************************************************)

\* Earth mean radius, km
meanR == Lit(6371009, -3)

\* miles to kilometers conversion factor
mi2km == Lit(1609344, -6)

toRad == FDiv(Pi, FromInt(180))

\* the value every catch block returns
Sentinel == FNeg(One)

\* the factor with the conversion the wrong way round: unit == SI ? 1.0 : mi2km
UnitFactorTimes(unit) == IF unit = "SI" THEN One ELSE mi2km

\* unit == Units::SI ? 1.0 : 1.0 / mi2km
UnitFactor(unit) == IF unit = "SI" THEN One ELSE FDiv(One, mi2km)

\* return ca * meanR * (unit == Units::SI ? 1.0 : 1.0 / mi2km)
Distance(ca, unit) == FMul(FMul(ca, meanR), UnitFactor(unit))

(***************************************************************************)
(* Geodesy::Haversine and Geodesy::SLC.  Nothing in either try block       *)
(* throws: arithmetic on doubles and the <cmath> functions return NaN or   *)
(* an infinity instead, so the catch block of neither is ever entered.     *)
(***************************************************************************)

\* a *= a
Square(x) == FMul(x, x)

\* double b = sin(...); b *= b * cos(phi1) * cos(phi2)
HaversineB(b0, phi1, phi2) == FMul(b0, FMul(FMul(b0, Cos(phi1)), Cos(phi2)))

\* the central angle, and the return
HaversineCa(a, b, unit) == Distance(FMul(FromInt(2), Asin(FSqrt(FAdd(a, b)))), unit)

HaversinePhi(phi1, phi2, lon1, lon2, unit) ==
    HaversineCa(Square(Sin(FDiv(FSub(phi2, phi1), FromInt(2)))),
                HaversineB(Sin(FMul(FDiv(FSub(lon2, lon1), FromInt(2)), toRad)), phi1, phi2),
                unit)

Haversine(lat1, lon1, lat2, lon2, unit) ==
    HaversinePhi(FMul(lat1, toRad), FMul(lat2, toRad), lon1, lon2, unit)

SLCPhi(phi1, phi2, deltaLambda, unit) ==
    Distance(Acos(FAdd(FMul(Sin(phi1), Sin(phi2)),
                       FMul(FMul(Cos(phi1), Cos(phi2)), Cos(deltaLambda)))),
             unit)

SLC(lat1, lon1, lat2, lon2, unit) ==
    SLCPhi(FMul(lat1, toRad), FMul(lat2, toRad), FMul(FSub(lon1, lon2), toRad), unit)

(***************************************************************************)
(* Geodesy::Vincenty.  The locals of a call are a record; a statement maps *)
(* the locals before it to the locals after it.                            *)
(***************************************************************************)

\* WGS84 Earth equatorial radius (m)
a == Lit(6378137, 0)

\* 1.0 / 298.257223563, the literal written to nine digits
f == FDiv(One, Lit(298257224, -6))

b == FMul(a, FSub(One, f))

eps == Lit(1, -12)

\* int iterLimit = 100
IterLimitInit == 100

\* the locals after the statements before the loop; the locals declared
\* without an initialiser hold NaN until the loop body assigns them, and
\* none is read before that
EntryLocals(U1, U2, deltaLambda) ==
    [sinU1 |-> Sin(U1), cosU1 |-> Cos(U1), sinU2 |-> Sin(U2), cosU2 |-> Cos(U2),
     deltaLambda |-> deltaLambda, lambda |-> deltaLambda, lambdaPrev |-> NaN,
     iterLimit |-> IterLimitInit,
     sinSigma |-> NaN, cosSigma |-> NaN, sigma |-> NaN, sinAlpha |-> NaN,
     cos2Alpha |-> NaN, cos2SigmaM |-> NaN, u2 |-> NaN, A |-> NaN, B |-> NaN,
     deltaSigma |-> NaN,
     sinLambda |-> NaN, cosLambda |-> NaN, term1 |-> NaN, term2 |-> NaN,
     sin2Alpha |-> NaN, cos2AlphaM2 |-> NaN, C |-> NaN]

\* U = atan((1 - f) * tan(phi))
ReducedLatitude(phi) == Atan(FMul(FSub(One, f), Tan(phi)))

VincentyEntry(lat1, lon1, lat2, lon2) ==
    EntryLocals(ReducedLatitude(FMul(lat1, toRad)), ReducedLatitude(FMul(lat2, toRad)),
                FMul(FSub(lon2, lon1), toRad))

SetSinCosLambda(l) == [l EXCEPT !.sinLambda = Sin(l.lambda), !.cosLambda = Cos(l.lambda)]

SetTerms(l) ==
    [l EXCEPT !.term1 = FMul(l.cosU2, l.sinLambda),
              !.term2 = FSub(FMul(l.cosU1, l.sinU2),
                             FMul(FMul(l.sinU1, l.cosU2), l.cosLambda))]

SetSinSigma(l) ==
    [l EXCEPT !.sinSigma = FSqrt(FAdd(FMul(l.term1, l.term1), FMul(l.term2, l.term2)))]

\* the test of sinSigma as sinSigma < 0.0, which no square root passes
CoincidentBelow(sinSigma) == IsNegative(sinSigma)

\* if (sinSigma == 0.0) return 0.0
Coincident(sinSigma) == FIsZero(sinSigma)

SetCosSigma(l) ==
    [l EXCEPT !.cosSigma = FAdd(FMul(l.sinU1, l.sinU2),
                                FMul(FMul(l.cosU1, l.cosU2), l.cosLambda))]

SetSigma(l) == [l EXCEPT !.sigma = Atan2(l.sinSigma, l.cosSigma)]

SetSinAlpha(l) ==
    [l EXCEPT !.sinAlpha = FDiv(FMul(FMul(l.cosU1, l.cosU2), l.sinLambda), l.sinSigma)]

SetCos2Alpha(l) ==
    [l EXCEPT !.sin2Alpha = FMul(l.sinAlpha, l.sinAlpha),
              !.cos2Alpha = FSub(One, FMul(l.sinAlpha, l.sinAlpha))]

\* the guard as cos2Alpha >= 0.0, which lets cos2Alpha = 0 through
DividesUnlessNegative(cos2Alpha) == ~IsNaN(cos2Alpha) /\ ~IsNegative(cos2Alpha)

\* (cos2Alpha != 0.0) ? ... : 0.0 -- whether the division by cos2Alpha is evaluated
DividesByCos2Alpha(cos2Alpha) == FNonZero(cos2Alpha)

SetCos2SigmaM(l) ==
    [l EXCEPT !.cos2SigmaM =
        IF DividesByCos2Alpha(l.cos2Alpha)
        THEN FSub(l.cosSigma,
                  FDiv(FMul(FMul(FromInt(2), l.sinU1), l.sinU2), l.cos2Alpha))
        ELSE Zero]

SetU2(l) ==
    [l EXCEPT !.u2 = FDiv(FMul(l.cos2Alpha, FSub(FMul(a, a), FMul(b, b))), FMul(b, b))]

SeriesA(u2) ==
    FAdd(One, FMul(FDiv(u2, FromInt(16384)),
                   FAdd(FromInt(4096), FMul(u2,
                       FAdd(FromInt(-768), FMul(u2,
                           FSub(FromInt(320), FMul(FromInt(175), u2))))))))

SeriesB(u2) ==
    FMul(FDiv(u2, FromInt(1024)),
         FAdd(FromInt(256), FMul(u2,
             FAdd(FromInt(-128), FMul(u2,
                 FSub(FromInt(74), FMul(FromInt(47), u2)))))))

SetAB(l) == [l EXCEPT !.A = SeriesA(l.u2), !.B = SeriesB(l.u2)]

SetCos2AlphaM2(l) == [l EXCEPT !.cos2AlphaM2 = FMul(l.cos2SigmaM, l.cos2SigmaM)]

\* -1.0 + 2.0 * cos2AlphaM2
TwoM2(l) == FAdd(FromInt(-1), FMul(FromInt(2), l.cos2AlphaM2))

SetDeltaSigma(l) ==
    [l EXCEPT !.deltaSigma =
        FMul(FMul(l.B, l.sinSigma),
             FAdd(l.cos2SigmaM,
                  FMul(FDiv(l.B, FromInt(4)),
                       FSub(FMul(l.cosSigma, TwoM2(l)),
                            FMul(FMul(FMul(FDiv(l.B, FromInt(6)), l.cos2SigmaM),
                                      FAdd(FromInt(-3),
                                           FMul(FMul(FromInt(4), l.sinSigma), l.sinSigma))),
                                 FAdd(FromInt(-3), FMul(FromInt(4), l.cos2AlphaM2)))))))]

SetC(l) ==
    [l EXCEPT !.C = FMul(FMul(FDiv(f, FromInt(16)), l.cos2Alpha),
                         FAdd(FromInt(4),
                              FMul(f, FSub(FromInt(4), FMul(FromInt(3), l.cos2Alpha)))))]

\* lambdaPrev = lambda; lambda = deltaLambda + ...
SetLambda(l) ==
    [l EXCEPT !.lambdaPrev = l.lambda,
              !.lambda =
                  FAdd(l.deltaLambda,
                       FMul(FMul(FMul(FSub(One, l.C), f), l.sinAlpha),
                            FAdd(l.sigma,
                                 FMul(FMul(l.C, l.sinSigma),
                                      FAdd(l.cos2SigmaM,
                                           FMul(FMul(l.C, l.cosSigma), TwoM2(l)))))))]

\* the test as !(fabs(lambda - lambdaPrev) > eps), which a NaN passes
ConvergedNotAbove(lambda, lambdaPrev) == ~FLt(eps, FAbs(FSub(lambda, lambdaPrev)))

\* if (std::fabs(lambda - lambdaPrev) < eps) break
Converged(lambda, lambdaPrev) == FLt(FAbs(FSub(lambda, lambdaPrev)), eps)

\* the loop condition with the decrement after the test: while (iterLimit-- > 0)
ContinueLoopPost(iterLimit) == iterLimit > 0

\* while (--iterLimit > 0), of iterLimit before the decrement
ContinueLoop(iterLimit) == iterLimit - 1 > 0

\* how an iteration that did not return ended, and the locals after it; a
\* break leaves iterLimit as it is
BodyResult(l, converged) ==
    [end |-> IF converged THEN "break"
             ELSE IF ContinueLoop(l.iterLimit) THEN "again" ELSE "exhausted",
     divZero |-> FIsZero(l.sinSigma)
                 \/ (DividesByCos2Alpha(l.cos2Alpha) /\ FIsZero(l.cos2Alpha)),
     zeroGuard |-> FIsZero(l.cos2Alpha),
     fr |-> [l EXCEPT !.iterLimit = IF converged THEN @ ELSE @ - 1]]

BodyEnd(l) == BodyResult(l, Converged(l.lambda, l.lambdaPrev))

\* the loop body down to the assignment of sinSigma
BodyToSinSigma(fr) == SetSinSigma(SetTerms(SetSinCosLambda(fr)))

\* the loop body from the assignment of cosSigma to that of lambda
BodyToLambda(l) ==
    SetLambda(SetC(SetDeltaSigma(SetCos2AlphaM2(SetAB(SetU2(
        SetCos2SigmaM(SetCos2Alpha(SetSinAlpha(SetSigma(SetCosSigma(l)))))))))))

\* return 0.0 from inside the loop
BodyReturn0(l) == [end |-> "return0", divZero |-> FALSE, zeroGuard |-> FALSE, fr |-> l]

\* the loop body from the test of sinSigma on
BodyFromSinSigma(l) ==
    IF Coincident(l.sinSigma) THEN BodyReturn0(l) ELSE BodyEnd(BodyToLambda(l))

\* one execution of the loop body on the locals fr
LoopBody(fr) == BodyFromSinSigma(BodyToSinSigma(fr))

\* the loop body with the outcome of the convergence test given
BodyFromSinSigmaGiven(l, converged) ==
    IF Coincident(l.sinSigma) THEN BodyReturn0(l) ELSE BodyResult(BodyToLambda(l), converged)

LoopBodyGiven(fr, converged) == BodyFromSinSigmaGiven(BodyToSinSigma(fr), converged)

\* the test after the loop as iterLimit < 0, and as iterLimit <= 1
NoConvergenceBelow(iterLimit) == iterLimit < 0

NoConvergenceAtOne(iterLimit) == iterLimit <= 1

\* if (iterLimit == 0) throw
NoConvergence(iterLimit) == iterLimit = 0

\* the statements after the loop, with the catch block
VincentyExit(fr, unit) ==
    IF NoConvergence(fr.iterLimit) THEN Sentinel
    ELSE FMul(FDiv(FMul(FMul(b, fr.A), FSub(fr.sigma, fr.deltaSigma)), FromInt(1000)),
              UnitFactor(unit))

RECURSIVE VincentyLoop(_, _)
RECURSIVE VincentyAfter(_, _)
\* the loop and what follows it, run to the end of the call
VincentyLoop(fr, unit) == VincentyAfter(LoopBody(fr), unit)

VincentyAfter(r, unit) ==
    IF r.end = "return0" THEN Zero
    ELSE IF r.end = "again" THEN VincentyLoop(r.fr, unit)
    ELSE VincentyExit(r.fr, unit)

Vincenty(lat1, lon1, lat2, lon2, unit) ==
    VincentyLoop(VincentyEntry(lat1, lon1, lat2, lon2), unit)

(***************************************************************************)
(* The calls.  A caller measures one pair of points with one method in     *)
(* both units, as the table of Geodesy.h does: call 1 returns kilometers,  *)
(* call 2 miles.  Under Spec call 2 starts when call 1 has returned.       *)
(***************************************************************************)

Calls == {1, 2}

Algorithms == {"Haversine", "SLC", "Vincenty"}

Units == {"SI", "US"}

\* how many of LatVals and of LonVals the arguments are drawn from
NumLat == 5

NumLon == 6

LatVals == <<Zero, NaN, FromInt(45), Inf(1), FromInt(-30), FromInt(60), Inf(-1)>>

LonVals == <<Zero, FromInt(180), NaN, FromInt(90), Inf(1), FromInt(-120), FromInt(179), Inf(-1)>>

Lats == {LatVals[i] : i \in 1..Min(NumLat, Len(LatVals))}

Lons == {LonVals[i] : i \in 1..Min(NumLon, Len(LonVals))}

VARIABLES
    call,   \* call[t]: the method called and its five arguments
    pc,     \* pc[t]: where call t is: "start", "loop", "after" (the loop), "done"
    frame,  \* frame[s]: the locals of Vincenty in storage s
    ret,    \* ret[t]: the value call t returned, once pc[t] = "done"
    obs     \* obs[t]: what call t did (observation only, nothing reads it)

vars == <<call, pc, frame, ret, obs>>

\* the locals as statics, one storage for every call
SlotShared(t) == 1

\* the locals of a call are automatic: each call has its own
Slot(t) == t

NoFrame == [EntryLocals(NaN, NaN, NaN) EXCEPT !.iterLimit = 0]

Unobserved ==
    [iters |-> 0, end |-> "none", divZero |-> FALSE, zeroGuard |-> FALSE,
     nonFinite |-> FALSE, threw |-> FALSE]

Start(calls) ==
    /\ call = calls
    /\ pc = [t \in Calls |-> "start"]
    /\ frame = [s \in Calls |-> NoFrame]
    /\ ret = [t \in Calls |-> NaN]
    /\ obs = [t \in Calls |-> Unobserved]

Init ==
    \E alg \in Algorithms, lat1 \in Lats, lon1 \in Lons, lat2 \in Lats, lon2 \in Lons :
        Start([t \in Calls |->
                 [alg |-> alg, lat1 |-> lat1, lon1 |-> lon1, lat2 |-> lat2, lon2 |-> lon2,
                  unit |-> IF t = 1 THEN "SI" ELSE "US"]])

Return(t, value) ==
    /\ ret' = [ret EXCEPT ![t] = value]
    /\ pc' = [pc EXCEPT ![t] = "done"]

CallHaversine(t) ==
    /\ pc[t] = "start"
    /\ call[t].alg = "Haversine"
    /\ Return(t, Haversine(call[t].lat1, call[t].lon1, call[t].lat2, call[t].lon2,
                           call[t].unit))
    /\ UNCHANGED <<call, frame, obs>>

CallSLC(t) ==
    /\ pc[t] = "start"
    /\ call[t].alg = "SLC"
    /\ Return(t, SLC(call[t].lat1, call[t].lon1, call[t].lat2, call[t].lon2,
                     call[t].unit))
    /\ UNCHANGED <<call, frame, obs>>

\* Vincenty, the statements before the loop
VincentyStart(t) ==
    /\ pc[t] = "start"
    /\ call[t].alg = "Vincenty"
    /\ frame' = [frame EXCEPT ![Slot(t)] =
                    VincentyEntry(call[t].lat1, call[t].lon1, call[t].lat2, call[t].lon2)]
    /\ pc' = [pc EXCEPT ![t] = "loop"]
    /\ UNCHANGED <<call, ret, obs>>

\* what an iteration that ended as r leaves behind
IterateEnd(t, r) ==
    /\ frame' = [frame EXCEPT ![Slot(t)] = r.fr]
    /\ obs' = [obs EXCEPT ![t] =
                 [@ EXCEPT !.iters = @ + 1, !.end = r.end,
                           !.divZero = @ \/ r.divZero,
                           !.zeroGuard = @ \/ r.zeroGuard,
                           !.nonFinite = @ \/ ~IsFinite(r.fr.sinSigma)
                                           \/ ~IsFinite(r.fr.lambda)]]
    /\ IF r.end = "return0"
       THEN Return(t, Zero)
       ELSE /\ pc' = [pc EXCEPT ![t] = IF r.end = "again" THEN "loop" ELSE "after"]
            /\ ret' = ret

\* Vincenty, one iteration of the loop
VincentyIterate(t) ==
    /\ pc[t] = "loop"
    /\ IterateEnd(t, LoopBody(frame[Slot(t)]))
    /\ UNCHANGED call

\* Vincenty, the statements after the loop and the catch block
VincentyFinish(t) ==
    /\ pc[t] = "after"
    /\ Return(t, VincentyExit(frame[Slot(t)], call[t].unit))
    /\ obs' = [obs EXCEPT ![t].threw = NoConvergence(frame[Slot(t)].iterLimit)]
    /\ UNCHANGED <<call, frame>>

\* the caller makes call 2 when call 1 has returned
InTurn(t) == t = 1 \/ pc[1] = "done"

Next ==
    \/ \E t \in Calls : InTurn(t) /\ CallHaversine(t)
    \/ \E t \in Calls : InTurn(t) /\ CallSLC(t)
    \/ \E t \in Calls : InTurn(t) /\ VincentyStart(t)
    \/ \E t \in Calls : InTurn(t) /\ VincentyIterate(t)
    \/ \E t \in Calls : InTurn(t) /\ VincentyFinish(t)

Spec == Init /\ [][Next]_vars

(***************************************************************************)
(* Two threads, each making one call, with nothing to order their steps.   *)
(***************************************************************************)

\* how many of ThreadArgs the threads' coordinates are drawn from
NumThreadArgs == 3

ThreadArgs ==
    <<  <<Zero, Zero, FromInt(45), FromInt(90)>>,
        <<FromInt(45), Zero, FromInt(45), Zero>>,
        <<Zero, Zero, Zero, FromInt(179)>>,
        <<Zero, Zero, Zero, FromInt(90)>>,
        <<FromInt(60), FromInt(-120), FromInt(-30), FromInt(90)>> >>

ThreadCalls ==
    {[alg |-> alg, lat1 |-> ThreadArgs[i][1], lon1 |-> ThreadArgs[i][2],
      lat2 |-> ThreadArgs[i][3], lon2 |-> ThreadArgs[i][4], unit |-> unit] :
        alg \in Algorithms, i \in 1..Min(NumThreadArgs, Len(ThreadArgs)), unit \in Units}

InitThreads == \E calls \in [Calls -> ThreadCalls] : Start(calls)

NextThreads ==
    \/ \E t \in Calls : CallHaversine(t)
    \/ \E t \in Calls : CallSLC(t)
    \/ \E t \in Calls : VincentyStart(t)
    \/ \E t \in Calls : VincentyIterate(t)
    \/ \E t \in Calls : VincentyFinish(t)

SpecThreads == InitThreads /\ [][NextThreads]_vars

\* the value the call c returns when it runs alone
Alone(c) ==
    IF c.alg = "Haversine" THEN Haversine(c.lat1, c.lon1, c.lat2, c.lon2, c.unit)
    ELSE IF c.alg = "SLC" THEN SLC(c.lat1, c.lon1, c.lat2, c.lon2, c.unit)
    ELSE Vincenty(c.lat1, c.lon1, c.lat2, c.lon2, c.unit)

(***************************************************************************)
(* The loop of Vincenty for every place it can stop.  Which iteration is   *)
(* the first to pass the test of line 170 depends on the digits of the     *)
(* arguments; with the four digits kept here the test passes within a few  *)
(* iterations or never.  SpecLoop therefore takes the outcome of the test  *)
(* in each iteration as an input, so that the loop stops after each k in   *)
(* 1..100; all the rest of the call is as under Spec.                      *)
(***************************************************************************)

\* how many of LoopArgs the coordinates are drawn from
NumLoopArgs == 1

LoopArgs ==
    <<  <<Zero, Zero, FromInt(45), FromInt(90)>>,
        <<Zero, Zero, Zero, FromInt(179)>> >>

InitLoop ==
    \E i \in 1..Min(NumLoopArgs, Len(LoopArgs)) :
        Start([t \in Calls |->
                 [alg |-> "Vincenty", lat1 |-> LoopArgs[i][1], lon1 |-> LoopArgs[i][2],
                  lat2 |-> LoopArgs[i][3], lon2 |-> LoopArgs[i][4],
                  unit |-> IF t = 1 THEN "SI" ELSE "US"]])

VincentyIterateGiven(t) ==
    /\ pc[t] = "loop"
    /\ \E converged \in BOOLEAN : IterateEnd(t, LoopBodyGiven(frame[Slot(t)], converged))
    /\ UNCHANGED call

NextLoop ==
    \/ \E t \in Calls : InTurn(t) /\ VincentyStart(t)
    \/ \E t \in Calls : InTurn(t) /\ VincentyIterateGiven(t)
    \/ \E t \in Calls : InTurn(t) /\ VincentyFinish(t)

SpecLoop == InitLoop /\ [][NextLoop]_vars

(***************************************************************************)
(* The properties.                                                         *)
(***************************************************************************)

Done(t) == pc[t] = "done"

IsVincenty(t) == call[t].alg = "Vincenty"

\* a non-negative number
IsDistance(x) == IsFinite(x) /\ x.m >= 0

FiniteArgs(c) ==
    IsFinite(c.lat1) /\ IsFinite(c.lon1) /\ IsFinite(c.lat2) /\ IsFinite(c.lon2)

\* C1: every call returns, and what it returns is a non-negative distance or
\* exactly the sentinel -1, never NaN and never another negative value.
C1_DistanceOrSentinel ==
    \A t \in Calls : Done(t) => IsDistance(ret[t]) \/ ret[t] = Sentinel

\* C2: a call of Vincenty in which none of the 100 iterations passes the
\* convergence test or returns 0 returns exactly -1, in kilometers and in
\* miles, and has then run the loop body 100 times.
C2_ExhaustedReturnsSentinel ==
    \A t \in Calls :
        IsVincenty(t) /\ obs[t].end = "exhausted" =>
            /\ obs[t].iters = IterLimitInit
            /\ pc[t] \in {"after", "done"}
            /\ Done(t) => ret[t] = Sentinel /\ obs[t].threw

C2_Witness ==
    /\ \A t \in Calls : Done(t) /\ IsVincenty(t) /\ obs[t].end = "exhausted"
    /\ FiniteArgs(call[1])
    /\ ret[1] = Sentinel /\ call[1].unit = "SI"
    /\ ret[2] = Sentinel /\ call[2].unit = "US"

\* C3: Vincenty terminates: the loop body runs at least once and at most 100
\* times; iterLimit starts at 100, loses one per iteration that did not pass
\* the convergence test and never goes below 0; the loop is re-entered only
\* with iterLimit above 0, so the 100th iteration is the last.
C3_BoundedIteration ==
    \A t \in Calls :
        IsVincenty(t) =>
            /\ obs[t].iters \in 0..IterLimitInit
            /\ pc[t] # "start" => frame[Slot(t)].iterLimit \in 0..IterLimitInit
            /\ pc[t] = "loop" => /\ frame[Slot(t)].iterLimit = IterLimitInit - obs[t].iters
                                 /\ frame[Slot(t)].iterLimit > 0
            /\ pc[t] \in {"after", "done"} => obs[t].iters >= 1
            /\ pc[t] = "after" =>
                   frame[Slot(t)].iterLimit =
                       IterLimitInit - obs[t].iters + (IF obs[t].end = "break" THEN 1 ELSE 0)

C3_Witness ==
    /\ Done(1) /\ IsVincenty(1)
    /\ obs[1].iters = IterLimitInit
    /\ frame[Slot(1)].iterLimit = 0

\* C4: Haversine and SLC return the sentinel -1 when a coordinate is NaN or
\* infinite or when the argument of asin, acos or sqrt is outside its domain.
C4_SphericalDomainError ==
    \A t \in Calls :
        Done(t) /\ ~IsVincenty(t) /\ ~FiniteArgs(call[t]) => ret[t] = Sentinel

\* C5: a call of Vincenty with a NaN or infinite argument or intermediate
\* value returns -1, as a call that does not converge does, and never NaN.
C5_VincentyDomainError ==
    \A t \in Calls :
        Done(t) /\ IsVincenty(t) =>
            /\ ~FiniteArgs(call[t]) \/ obs[t].nonFinite =>
                   ret[t] = Sentinel /\ obs[t].iters = IterLimitInit
            /\ ~IsNaN(ret[t])

C5_Witness ==
    /\ Done(1) /\ IsVincenty(1)
    /\ IsNaN(call[1].lat1)
    /\ obs[1].nonFinite
    /\ ret[1] = Sentinel

\* the two calls of the caller have returned
BothDone == Done(1) /\ Done(2)

\* 1 / 1.609344
MilesPerKm == FDiv(One, mi2km)

\* C6 as stated: whatever the outcome, the value returned in miles is the
\* value returned in kilometers times 1/1.609344.
C6_EveryOutcomeScaled == BothDone => ret[2] = FMul(ret[1], MilesPerKm)

\* C6, amended: the call in miles ends as the call in kilometers does; when
\* both end in the catch block both return -1, and otherwise the value in
\* miles is the value in kilometers times 1/1.609344 (0 for 0, NaN for NaN).
C6_UnitConsistency ==
    BothDone =>
        /\ obs[1].threw = obs[2].threw
        /\ obs[1].end = obs[2].end
        /\ IF obs[1].threw
           THEN ret[1] = Sentinel /\ ret[2] = Sentinel
           ELSE ret[2] = FMul(ret[1], MilesPerKm)

C6_Witness ==
    /\ BothDone
    /\ ~obs[1].threw
    /\ IsDistance(ret[1]) /\ ret[1].m > 0
    /\ ret[2] = FMul(ret[1], MilesPerKm)
    /\ ret[2] # ret[1]

\* the two points of the call are one finite point
SamePoint(c) == FiniteArgs(c) /\ c.lat1 = c.lat2 /\ c.lon1 = c.lon2

\* C7 as stated: for coincident points each of the three methods returns
\* exactly 0.
C7_EveryMethodZero == \A t \in Calls : Done(t) /\ SamePoint(call[t]) => ret[t] = Zero

\* C7, amended: for coincident finite points Haversine and Vincenty return
\* exactly 0 in either unit, Vincenty from the test of sinSigma in the first
\* iteration, before any convergence test and without reaching the statements
\* after the loop.
C7_Coincidence ==
    \A t \in Calls :
        SamePoint(call[t]) /\ call[t].alg # "SLC" =>
            /\ Done(t) => ret[t] = Zero
            /\ IsVincenty(t) => /\ pc[t] # "after"
                                /\ obs[t].iters <= 1
                                /\ ~obs[t].threw
                                /\ Done(t) => obs[t].iters = 1 /\ obs[t].end = "return0"

C7_Witness ==
    /\ BothDone /\ IsVincenty(1) /\ SamePoint(call[1])
    /\ call[1].lat1 # Zero
    /\ obs[1].end = "return0" /\ obs[2].end = "return0"
    /\ ret[1] = Zero /\ ret[2] = Zero

\* C8: with the calls of two threads interleaved in every way, each call
\* returns the value it returns when it runs alone.
C8_Independent ==
    [][\A t \in Calls : ~Done(t) /\ pc'[t] = "done" => ret'[t] = Alone(call[t])]_vars

\* both calls are inside the loop of Vincenty at once, on different arguments,
\* and each has already run an iteration
C8_Witness ==
    /\ \A t \in Calls : IsVincenty(t) /\ pc[t] = "loop" /\ obs[t].iters >= 1
    /\ call[1].lat2 # call[2].lat2

\* b * A * (sigma - deltaSigma) / 1000 scaled by the unit factor
SuccessValue(fr, unit) ==
    FMul(FDiv(FMul(FMul(b, fr.A), FSub(fr.sigma, fr.deltaSigma)), FromInt(1000)),
         IF unit = "SI" THEN One ELSE MilesPerKm)

\* C9: the loop stops at the first iteration k in 1..100 that passes the
\* convergence test, and the call then returns the distance computed from
\* that iteration's values, not the sentinel, also when k = 100; the sentinel
\* is returned only when iterLimit has reached 0.
C9_ConvergedIsSuccess ==
    \A t \in Calls :
        /\ pc[t] = "loop" => obs[t].end \in {"none", "again"}
        /\ obs[t].end = "break" =>
               /\ pc[t] \in {"after", "done"}
               /\ obs[t].iters \in 1..IterLimitInit
               /\ frame[Slot(t)].iterLimit = IterLimitInit - obs[t].iters + 1
               /\ ~obs[t].threw
               /\ Done(t) => ret[t] = SuccessValue(frame[Slot(t)], call[t].unit)
        /\ obs[t].threw => frame[Slot(t)].iterLimit = 0 /\ obs[t].end = "exhausted"
        /\ Done(t) /\ obs[t].end = "exhausted" => obs[t].threw /\ ret[t] = Sentinel

\* the test passes in the 100th iteration and the call returns a distance
C9_Witness ==
    /\ Done(2) /\ obs[2].end = "break"
    /\ obs[2].iters = IterLimitInit
    /\ frame[Slot(2)].iterLimit = 1
    /\ IsDistance(ret[2]) /\ ret[2].m > 0

\* C10: no iteration divides by an exact zero: sinSigma divides only after
\* the test that returns 0, cos2Alpha only when it is not 0; when cos2Alpha
\* is 0, cos2SigmaM is 0 and the iteration goes on to the convergence test
\* like any other, and the call does not end in the catch block for it.
C10_NoDivisionByZero ==
    \A t \in Calls :
        /\ ~obs[t].divZero
        /\ IsVincenty(t) /\ pc[t] # "start" /\ obs[t].end # "return0" =>
               /\ FIsZero(frame[Slot(t)].cos2Alpha) = obs[t].zeroGuard
               /\ obs[t].zeroGuard => FIsZero(frame[Slot(t)].cos2SigmaM)
               /\ obs[t].iters >= 1 => ~FIsZero(frame[Slot(t)].sinSigma)
        /\ obs[t].zeroGuard /\ FiniteArgs(call[t]) /\ Done(t) /\ obs[t].end = "break" =>
               IsDistance(ret[t])

\* a call along the equator, where cos2Alpha = 0, that returns a distance
C10_Witness ==
    /\ Done(1) /\ IsVincenty(1)
    /\ obs[1].zeroGuard
    /\ FIsZero(frame[Slot(1)].cos2Alpha) /\ FIsZero(frame[Slot(1)].cos2SigmaM)
    /\ obs[1].end = "break"
    /\ IsDistance(ret[1]) /\ ret[1].m > 0

====
